---- MODULE Spec2Model ----
(***************************************************************************)
(* Model of src/mod.ts (squirc): the module-wide accuracy setting and the  *)
(* path generator squirc with its two evaluators squirc_simple and         *)
(* hybridial_squircle.                                                     *)
(*                                                                         *)
(* Numbers.  Every coordinate the generator emits has the shape            *)
(*     c * t + k                                                           *)
(* with c and k integers and t one value of a transcendental helper        *)
(* (squirc_cos, the Newton solve, the explicit quadrant formula) or of     *)
(* the sample abscissa i*step.  A coordinate is kept in that normal form,  *)
(* [c, t, k]; t is a 5-tuple naming the helper and its arguments.  Helper  *)
(* values known exactly (cos at 0 is 1, the quadrant formula at x = 1 is   *)
(* 0, ...) are folded into k, so that two coordinates are the same number  *)
(* whenever their normal forms are equal.                                  *)
(*                                                                         *)
(* Angles are counted in units of PI/(2*accuracy): a quarter turn is       *)
(* `accuracy` units, the sampling step 2*PI/accuracy is 4 units.           *)
(* Rotations are whole quarter turns, sizes are even, so that rotate and   *)
(* size/2 are exact.  Exponents are counted in halves (2 is the exponent   *)
(* 1, 3 is 1.5, 4 is 2).                                                   *)
(***************************************************************************)
EXTENDS Integers, Sequences, FiniteSets, TLC

VARIABLES accuracy, call, returned

vars == <<accuracy, call, returned>>

\* ------------------------------------------------------------------ bounds

MaxAccuracy == 8

\* ------------------------------------------------------- program constants

DefaultAccuracy == 101
ExpDiamond == 2
ExpCircle == 4
ExpAngularMin == 3
Infinity == 1000

\* ------------------------------------------------------------------ inputs

\* exponents 1, 2 and 3 (in halves); <<size.x, size.y, center.x, center.y>>
FiniteExponents == {2, 4, 6}
PlacementValues == {<<2, 2, 0, 0>>, <<4, 2, 1, 3>>}
QuarterTurns == {0, 1}

\* -------------------------------------------------------------- coordinates

NoTerm == <<"1", 0, 0, 0, 0>>

Const(k) == [c |-> 0, t |-> NoTerm, k |-> k]

Scale(s, v) ==
    IF s * v.c = 0 THEN Const(s * v.k)
    ELSE [c |-> s * v.c, t |-> v.t, k |-> s * v.k]

Plus(v, w) ==
    IF v.c = 0 THEN [w EXCEPT !.k = @ + v.k]
    ELSE IF w.c = 0 THEN [v EXCEPT !.k = @ + w.k]
    ELSE IF v.c + w.c = 0 THEN Const(v.k + w.k)
    ELSE [c |-> v.c + w.c, t |-> v.t, k |-> v.k + w.k]

Minus(v, w) == Plus(v, Scale(-1, w))

\* Math.cos and Math.sin at whole quarter turns
Cos(q) == <<1, 0, -1, 0>>[(q % 4) + 1]

Sin(q) == <<0, 1, 0, -1>>[(q % 4) + 1]

\* the % operator of the language: the result takes the sign of the dividend
Rem(a, m) == IF a >= 0 THEN a % m ELSE -((-a) % m)

\* ------------------------------------------------------------------- Point

Point(x, y) == [x |-> x, y |-> y]

IntPoint(x, y) == Point(Const(x), Const(y))

add(p, q) == Point(Plus(p.x, q.x), Plus(p.y, q.y))

subtract(p, q) == Point(Minus(p.x, q.x), Minus(p.y, q.y))

rotate(p, angle) ==
    Point(Minus(Scale(Cos(angle), p.x), Scale(Sin(angle), p.y)),
          Plus(Scale(Sin(angle), p.x), Scale(Cos(angle), p.y)))

\* ---------------------------------------------------------------- exponent

Number(e) == [type |-> "number", x |-> e, y |-> e]

PointExp(x, y) == [type |-> "Point", x |-> x, y |-> y]

isFinite(e) == e # Infinity

\* ------------------------------------------------------------- path string
\* A path string is the sequence of its tokens: command letters, coordinate
\* pairs (a Point rendered "x y") and the bare numbers of an arc.

Cmd(letter) == [kind |-> letter, p |-> IntPoint(0, 0)]

Pt(p) == [kind |-> "pt", p |-> p]

Num(v) == [kind |-> "num", p |-> IntPoint(v, 0)]

Reverse(s) == [k \in 1..Len(s) |-> s[Len(s) - k + 1]]

\* ------------------------------------------------------- squirc, lines 36-55

\* the corners listed row by row instead of around the box
BoundingBoxOffsets_RowOrder(size) ==
    << IntPoint(-(size.x \div 2), -(size.y \div 2)),
       IntPoint(  size.x \div 2,  -(size.y \div 2)),
       IntPoint(-(size.x \div 2),   size.y \div 2),
       IntPoint(  size.x \div 2,    size.y \div 2) >>

BoundingBoxOffsets(size) ==
    << IntPoint(-(size.x \div 2), -(size.y \div 2)),
       IntPoint(  size.x \div 2,  -(size.y \div 2)),
       IntPoint(  size.x \div 2,    size.y \div 2),
       IntPoint(-(size.x \div 2),   size.y \div 2) >>

EdgeCenterOffsets(size) ==
    << IntPoint(0, -(size.y \div 2)),
       IntPoint(size.x \div 2, 0),
       IntPoint(0, size.y \div 2),
       IntPoint(-(size.x \div 2), 0) >>

Anchors(offsets, center, rotation, clockwise) ==
    LET placed == [k \in 1..4 |-> add(rotate(offsets[k], rotation), center)]
    IN  IF clockwise THEN placed ELSE Reverse(placed)

boundingBox(size, center, rotation, clockwise) ==
    Anchors(BoundingBoxOffsets(size), center, rotation, clockwise)

edgeCenters(size, center, rotation, clockwise) ==
    Anchors(EdgeCenterOffsets(size), center, rotation, clockwise)

\* --------------------------------------------------- trigonometric helpers

RECURSIVE squirc_cos(_, _, _)
squirc_cos(angle, exponent, n) ==
    LET a == Rem(angle, 4 * n)
    IN  IF a < 0 THEN squirc_cos(-a, exponent, n)
        ELSE IF a > n THEN Scale(-1, squirc_cos(2 * n - a, exponent, n))
        ELSE IF a = 0 THEN Const(1)
        ELSE IF a = n THEN Const(0)
        ELSE [c |-> 1, t |-> <<"squirc_cos", a, n, exponent, exponent>>, k |-> 0]

squirc_sin(angle, exponent, n) == squirc_cos(n - angle, exponent, n)

\* The Newton solve.  At angle 0 the start value 1 is the root and is returned.
\* At a quarter turn tan is astronomically large (or the result is NaN and 1
\* is returned): the five steps end far from the root 0, at a positive value
\* that is kept as a term of its own.
RECURSIVE hybridial_squircular_cos(_, _, _)
hybridial_squircular_cos(angle, exponent, n) ==
    IF angle < 0 THEN hybridial_squircular_cos(-angle, exponent, n)
    ELSE IF angle > n
         THEN Scale(-1, hybridial_squircular_cos(2 * n - angle, exponent, n))
    ELSE IF angle = 0 THEN Const(1)
    ELSE [c |-> 1, t |-> <<"newton", angle, n, exponent.x, exponent.y>>, k |-> 0]

hybridial_squircular_sin(angle, exponent, n) ==
    hybridial_squircular_cos(n - angle, PointExp(exponent.y, exponent.x), n)

\* x = i * step with step = 4 / accuracy, as the fraction 4i / n
SampleX(i, n) ==
    IF 4 * i = n THEN Const(1)
    ELSE [c |-> 1, t |-> <<"x", 4 * i, n, 0, 0>>, k |-> 0]

\* (1 - x^ex)^(1/ey) at x = 4i / n: 0 at x = 1
hybridial_squircular_quadrant_explicit(i, n, exponent) ==
    IF 4 * i = n THEN Const(0)
    ELSE [c |-> 1, t |-> <<"explicit", 4 * i, n, exponent.x, exponent.y>>, k |-> 0]

\* ------------------------------------------------------------ loop bounds

\* i <= accuracy: the loop runs once more and samples the start again
AngularIndices_Inclusive(n) == [k \in 1..n |-> k]

\* for (let i = 1; i < accuracy; i++)
AngularIndices(n) == [k \in 1..(n - 1) |-> k]

\* i <= accuracy/4: the ascending runs reach x = 1 as well
AscendingIndices_Inclusive(n) == [k \in 1..(n \div 4) |-> k]

\* for (let i = 1; i < accuracy/4; i++)
AscendingIndices(n) == [k \in 1..Cardinality({i \in 1..n : 4 * i < n}) |-> k]

\* for (let i = Math.floor(accuracy/4); i >= 1; i--)
DescendingIndices(n) == [k \in 1..(n \div 4) |-> (n \div 4) - k + 1]

\* the angle of sample i: origin -/+ i * step
SampleAngle(i, clockwise, n) == IF clockwise THEN n - 4 * i ELSE n + 4 * i

\* the first edge center whatever the winding, forgetting the reversal
MoveAnchor_First(clockwise, ec) == ec[1]

\* `M${clockwise ? edgeCenters[0] : edgeCenters[3]}`
MoveAnchor(clockwise, ec) == IF clockwise THEN ec[1] ELSE ec[4]

\* ---------------------------------------------------------- squirc_simple

SquarePath(bb) == <<Cmd("M"), Pt(bb[1]), Cmd("L"), Pt(bb[2]), Pt(bb[3]), Pt(bb[4]), Cmd("Z")>>

DiamondPath(ec) == <<Cmd("M"), Pt(ec[1]), Cmd("L"), Pt(ec[2]), Pt(ec[3]), Pt(ec[4]), Cmd("Z")>>

\* the sweep flag fixed at 1: the winding is ignored
CirclePath_FixedSweep(size, clockwise, ec) ==
    LET arc(to) == <<Num(size.x \div 2), Num(size.y \div 2), Num(0), Num(0),
                     Num(1), Pt(to)>>
    IN  <<Cmd("M"), Pt(ec[1]), Cmd("A")>> \o arc(ec[3]) \o arc(ec[1])

CirclePath(size, clockwise, ec) ==
    LET sweep == IF clockwise THEN 1 ELSE 0
        arc(to) == <<Num(size.x \div 2), Num(size.y \div 2), Num(0), Num(0),
                     Num(sweep), Pt(to)>>
    IN  <<Cmd("M"), Pt(ec[1]), Cmd("A")>> \o arc(ec[3]) \o arc(ec[1])

SimpleSample(i, exponent, size, center, rotation, clockwise, n) ==
    LET angle == SampleAngle(i, clockwise, n)
        p == Point(Scale(size.x \div 2, squirc_cos(angle, exponent, n)),
                   Scale(size.y \div 2, Scale(-1, squirc_sin(angle, exponent, n))))
    IN  add(rotate(p, rotation), center)

SuperellipsePath(exponent, size, center, rotation, clockwise, ec, n) ==
    LET idx == AngularIndices(n)
        lines == [k \in 1..(2 * Len(idx)) |->
                    IF k % 2 = 1 THEN Cmd("L")
                    ELSE Pt(SimpleSample(idx[k \div 2], exponent, size, center,
                                         rotation, clockwise, n))]
    IN  <<Cmd("M"), Pt(MoveAnchor(clockwise, ec))>> \o lines \o <<Cmd("Z")>>

squirc_simple(exponent, size, center, rotation, clockwise, bb, ec, n) ==
    IF ~isFinite(exponent) THEN SquarePath(bb)
    ELSE IF exponent = ExpDiamond THEN DiamondPath(ec)
    ELSE IF exponent = ExpCircle THEN CirclePath(size, clockwise, ec)
    ELSE SuperellipsePath(exponent, size, center, rotation, clockwise, ec, n)

\* ------------------------------------------------------ hybridial_squircle

HybridSample(i, exponent, size, center, rotation, clockwise, n) ==
    LET angle == SampleAngle(i, clockwise, n)
        p == Point(Scale(size.x \div 2, hybridial_squircular_cos(angle, exponent, n)),
                   Scale(size.y \div 2,
                         Scale(-1, hybridial_squircular_sin(angle, exponent, n))))
    IN  add(rotate(p, rotation), center)

\* one point of the explicit walk; sx and sy are the signs of the quadrant
QuadrantSample(i, sx, sy, exponent, size, center, rotation, n) ==
    LET p == Point(Scale(sx * (size.x \div 2), SampleX(i, n)),
                   Scale(sy * (size.y \div 2),
                         hybridial_squircular_quadrant_explicit(i, n, exponent)))
    IN  add(rotate(p, rotation), center)

\* if (exponent.x < exponent.y) { swap the exponents; rotation += PI/2 }
SwapNeeded(exponent) == exponent.x < exponent.y

QuadrantExponent(exponent) ==
    IF SwapNeeded(exponent) THEN PointExp(exponent.y, exponent.x) ELSE exponent

QuadrantRotation(exponent, rotation) ==
    IF SwapNeeded(exponent) THEN rotation + 1 ELSE rotation

QuadrantWalk(exponent, size, center, rotation, clockwise, n) ==
    LET e == QuadrantExponent(exponent)
        r == QuadrantRotation(exponent, rotation)
        cws == IF clockwise THEN 1 ELSE -1
        up == AscendingIndices(n)
        down == DescendingIndices(n)
        run(idx, sx, sy) ==
            [k \in 1..Len(idx) |->
                Pt(QuadrantSample(idx[k], sx, sy, e, size, center, r, n))]
    IN  run(up, cws, -1) \o run(down, cws, 1) \o run(up, -cws, 1)
            \o run(down, -cws, -1)

AngularRegime(exponent) == exponent.x >= ExpAngularMin /\ exponent.y >= ExpAngularMin

hybridial_squircle(exponent, size, center, rotation, clockwise, bb, ec, n) ==
    LET head == <<Cmd("M"), Pt(MoveAnchor(clockwise, ec)), Cmd("L")>>
        idx == AngularIndices(n)
    IN  IF AngularRegime(exponent)
        THEN head \o [k \in 1..Len(idx) |->
                        Pt(HybridSample(idx[k], exponent, size, center, rotation,
                                        clockwise, n))]
                  \o <<Cmd("Z")>>
        ELSE head \o QuadrantWalk(exponent, size, center, rotation, clockwise, n)
                  \o <<Cmd("Z")>>

\* ------------------------------------------------------------------ squirc

\* the collapse of equal components left out
Collapse_None(exponent) == exponent

\* lines 58-62: a Point exponent with equal components becomes a number
Collapse(exponent) ==
    IF exponent.type = "Point" /\ exponent.x = exponent.y
    THEN Number(exponent.x)
    ELSE exponent

\* the evaluator squirc returns through
Evaluator(exponent) ==
    IF Collapse(exponent).type = "number" THEN "squirc_simple"
    ELSE "hybridial_squircle"

squirc(exponent, size, center, rotation, clockwise, n) ==
    LET bb == boundingBox(size, center, rotation, clockwise)
        ec == edgeCenters(size, center, rotation, clockwise)
        e == Collapse(exponent)
    IN  IF e.type = "number"
        THEN squirc_simple(e.x, size, center, rotation, clockwise, bb, ec, n)
        ELSE hybridial_squircle(e, size, center, rotation, clockwise, bb, ec, n)

\* ------------------------------------------------------------ state machine

Exponents ==
    {Number(e) : e \in FiniteExponents \cup {Infinity}}
        \cup {PointExp(x, y) : x \in FiniteExponents, y \in FiniteExponents}
        \cup {PointExp(Infinity, Infinity)}

Placements ==
    {[size |-> [x |-> v[1], y |-> v[2]], center |-> IntPoint(v[3], v[4])] :
        v \in PlacementValues}

NoArgs ==
    [exponent |-> Number(ExpCircle), size |-> [x |-> 2, y |-> 2],
     center |-> IntPoint(0, 0), rotation |-> 0, clockwise |-> TRUE]

Undefined == [type |-> "undefined", n |-> 0, s |-> <<>>]

Init ==
    /\ accuracy = DefaultAccuracy
    /\ call = [op |-> "none", acc |-> 0, via |-> "none", args |-> NoArgs]
    /\ returned = Undefined

setAccuracy(acc) ==
    /\ accuracy' = acc
    /\ call' = [op |-> "setAccuracy", acc |-> acc, via |-> "none", args |-> NoArgs]
    /\ returned' = Undefined

getAccuracy ==
    /\ call' = [op |-> "getAccuracy", acc |-> 0, via |-> "none", args |-> NoArgs]
    /\ returned' = [type |-> "number", n |-> accuracy, s |-> <<>>]
    /\ UNCHANGED accuracy

Squirc(exponent, size, center, rotation, clockwise) ==
    /\ call' = [op |-> "squirc", acc |-> 0, via |-> Evaluator(exponent),
                args |-> [exponent |-> exponent, size |-> size, center |-> center,
                          rotation |-> rotation, clockwise |-> clockwise]]
    /\ returned' = [type |-> "string", n |-> 0,
                    s |-> squirc(exponent, size, center, rotation, clockwise,
                                 accuracy)]
    /\ UNCHANGED accuracy

Next ==
    \/ \E acc \in 1..MaxAccuracy : setAccuracy(acc)
    \/ getAccuracy
    \/ \E exponent \in Exponents, place \in Placements,
          rotation \in QuarterTurns, clockwise \in BOOLEAN :
            Squirc(exponent, place.size, place.center, rotation, clockwise)

Spec == Init /\ [][Next]_vars

\* ---------------------------------------------- reading a returned path
\* The last call, its arguments and the string it returned.

Called == call.op = "squirc"

Args == call.args

Path == returned.s

Letters == {"M", "L", "A", "Z"}

IsCommand(tok) == tok.kind \in Letters

IsPoint(tok) == tok.kind = "pt"

\* the coordinate pairs of a path, in order
Points(s) == LET pts == SelectSeq(s, IsPoint) IN [k \in 1..Len(pts) |-> pts[k].p]

\* the points after the move point
Samples(s) == LET v == Points(s) IN [k \in 1..(Len(v) - 1) |-> v[k + 1]]

Count(s, letter) == Cardinality({k \in 1..Len(s) : s[k].kind = letter})

Abs(i) == IF i < 0 THEN -i ELSE i

Sign(i) == IF i < 0 THEN -1 ELSE IF i > 0 THEN 1 ELSE 0

\* the sign of a coordinate c*t + 0 or k, the term t lying in (0, 1)
SignOf(v) == IF v.c = 0 THEN Sign(v.k) ELSE Sign(v.c)

\* an anchor of the bounding box: its offset rotated, then translated
Placed(x, y) == add(rotate(IntPoint(x, y), Args.rotation), Args.center)

HalfX == Args.size.x \div 2

HalfY == Args.size.y \div 2

TopMid == Placed(0, -HalfY)

RightMid == Placed(HalfX, 0)

BottomMid == Placed(0, HalfY)

LeftMid == Placed(-HalfX, 0)

\* a point seen from the frame turned back by r quarter turns about the center
Unturned(p, r) == rotate(subtract(p, Args.center), 4 - (r % 4))

\* the cases of the exponent argument
ScalarLike == Args.exponent.type = "number" \/ Args.exponent.x = Args.exponent.y

SquareCase == Called /\ ScalarLike /\ Args.exponent.x = Infinity

CircleCase == Called /\ ScalarLike /\ Args.exponent.x = ExpCircle

GeneralCase ==
    /\ Called /\ ScalarLike
    /\ Args.exponent.x \notin {Infinity, ExpDiamond, ExpCircle}

AnisotropicCase == Called /\ ~ScalarLike

AngularCase ==
    /\ AnisotropicCase
    /\ Args.exponent.x >= ExpAngularMin /\ Args.exponent.y >= ExpAngularMin

ExplicitCase == AnisotropicCase /\ ~AngularCase

SampledCase == GeneralCase \/ AnisotropicCase

\* ------------------------------------------------------------------ claims

\* C1: every returned string is a closed path: exactly one move command, first;
\* then only line or arc commands; and the closing instruction Z as its last
\* command.
C1_ClosedPath ==
    Called =>
        /\ Len(Path) >= 2
        /\ Path[1].kind = "M"
        /\ Count(Path, "M") = 1
        /\ Path[Len(Path)].kind = "Z"
        /\ Count(Path, "Z") = 1
        /\ \A k \in 2..(Len(Path) - 1) :
              IsCommand(Path[k]) => Path[k].kind \in {"L", "A"}

\* C2: for a non-finite exponent and clockwise winding the path is the move to
\* the top-left corner, one line command through the top-right, bottom-right
\* and bottom-left corners, and the close, each corner offset rotated and then
\* translated by center, whatever the accuracy; size (2,2), center (0,0),
\* rotation 0 gives (-1,-1), (1,-1), (1,1), (-1,1).
C2_SquareCorners ==
    (SquareCase /\ Args.clockwise) =>
        /\ Path = <<Cmd("M"), Pt(Placed(-HalfX, -HalfY)), Cmd("L"),
                    Pt(Placed(HalfX, -HalfY)), Pt(Placed(HalfX, HalfY)),
                    Pt(Placed(-HalfX, HalfY)), Cmd("Z")>>
        /\ (Args.size = [x |-> 2, y |-> 2] /\ Args.center = IntPoint(0, 0)
                /\ Args.rotation = 0)
            => Points(Path) = <<IntPoint(-1, -1), IntPoint(1, -1),
                                IntPoint(1, 1), IntPoint(-1, 1)>>

C2_Witness ==
    /\ SquareCase /\ Args.clockwise
    /\ Args.rotation = 1 /\ Args.center # IntPoint(0, 0)
    /\ accuracy \notin {DefaultAccuracy, 4}

\* the shape of a circle path: a move, one arc command, two arc segments with
\* the radii size.x/2 and size.y/2 and the winding flag as sweep flag, from
\* `from` to `via` and back to `from`
TwoArcs(from, via) ==
    LET flag == IF Args.clockwise THEN 1 ELSE 0
        seg(to) == <<Num(HalfX), Num(HalfY), Num(0), Num(0), Num(flag), Pt(to)>>
    IN  Path = <<Cmd("M"), Pt(from), Cmd("A")>> \o seg(via) \o seg(from)

\* C3 as stated: for exponent 2 and either winding the two arcs run from the
\* top edge midpoint to the bottom edge midpoint and back.
C3_TopToBottomEitherWinding == CircleCase => TwoArcs(TopMid, BottomMid)

\* C3: for exponent 2 the path is two arc segments with radii size.x/2 and
\* size.y/2 and the winding flag as sweep flag; clockwise they run from the top
\* edge midpoint to the bottom edge midpoint and back, counter-clockwise from
\* the left edge midpoint to the right edge midpoint and back.
C3_CircleArcs ==
    CircleCase =>
        IF Args.clockwise THEN TwoArcs(TopMid, BottomMid)
        ELSE TwoArcs(LeftMid, RightMid)

C3_Witness ==
    /\ CircleCase /\ ~Args.clockwise
    /\ Args.size.x # Args.size.y /\ Args.rotation = 1

\* V is W walked backwards around the cycle
CyclicReverse(V, W) ==
    /\ Len(V) = Len(W)
    /\ Len(V) > 0 =>
        \E shift \in 0..(Len(V) - 1) :
            \A k \in 1..Len(V) : W[k] = V[((shift + Len(V) - k) % Len(V)) + 1]

\* the path the same call returns with the winding reversed
Rewound ==
    squirc(Args.exponent, Args.size, Args.center, Args.rotation,
           ~Args.clockwise, accuracy)

\* C4: for every exponent whose path is made of line segments, and every
\* accuracy, the counter-clockwise path has the same vertices as the clockwise
\* one, in the reverse cyclic order.
C4_WindingSymmetry ==
    (Called /\ ~CircleCase) =>
        /\ {Points(Path)[k] : k \in 1..Len(Points(Path))}
            = {Points(Rewound)[k] : k \in 1..Len(Points(Rewound))}
        /\ CyclicReverse(Points(Path), Points(Rewound))

\* C5: a Point exponent with equal components returns the path of the scalar
\* call with that component, through the isotropic evaluator; the anisotropic
\* evaluator is entered only for a Point with unequal components.
C5_EqualPointIsScalar ==
    Called =>
        /\ (Args.exponent.type = "Point" /\ Args.exponent.x = Args.exponent.y) =>
            /\ Path = squirc(Number(Args.exponent.x), Args.size, Args.center,
                             Args.rotation, Args.clockwise, accuracy)
            /\ call.via = "squirc_simple"
        /\ call.via = "hybridial_squircle" =>
            (Args.exponent.type = "Point" /\ Args.exponent.x # Args.exponent.y)
        /\ Args.exponent.type = "number" => call.via = "squirc_simple"

C5_Witness ==
    /\ Called /\ Args.exponent = PointExp(6, 6)
    /\ accuracy = 4 /\ Len(Path) = 9

\* C6: in the general isotropic case the path is one move point and then
\* accuracy - 1 line commands with one point each, and the close; the
\* accuracy vertices are pairwise distinct (no sample is the start again), and
\* line point i lies where step i of accuracy equal steps from the top, taken
\* in the winding direction, falls: on the winding's side of the vertical axis
\* up to the half turn and on the other side after it, above the horizontal
\* axis in the first and last quarter and below it in between.
C6_GeneralSampling ==
    GeneralCase =>
        LET v == Points(Path) IN
        /\ Len(Path) = 2 * accuracy + 1
        /\ Path[1].kind = "M" /\ Path[2].kind = "pt"
        /\ \A i \in 1..(accuracy - 1) :
              Path[2 * i + 1].kind = "L" /\ Path[2 * i + 2].kind = "pt"
        /\ Path[Len(Path)].kind = "Z"
        /\ Len(v) = accuracy
        /\ \A j, k \in 1..Len(v) : v[j] = v[k] => j = k
        /\ \A i \in 1..(accuracy - 1) :
              LET p == Unturned(v[i + 1], Args.rotation)
                  side == IF Args.clockwise THEN 1 ELSE -1
              IN  /\ SignOf(p.x) = side * Sign(2 * accuracy - 4 * i)
                  /\ SignOf(p.y) =
                        (IF 4 * i < accuracy \/ 4 * i > 3 * accuracy THEN -1
                         ELSE IF 4 * i = accuracy \/ 4 * i = 3 * accuracy THEN 0
                         ELSE 1)

C6_Witness ==
    /\ GeneralCase /\ Args.exponent = Number(6)
    /\ Args.size = [x |-> 2, y |-> 2]
    /\ accuracy = 4 /\ Len(Samples(Path)) = 3

\* every line command is followed by at least one coordinate pair, and the
\* string ends with the close instruction
ValidClosedPath(s) ==
    /\ Len(s) >= 1 /\ s[Len(s)].kind = "Z"
    /\ \A k \in 1..Len(s) :
          s[k].kind = "L" => (k < Len(s) /\ s[k + 1].kind = "pt")

\* C7: in the quadrant-explicit branch accuracy 1, 2 or 3 emits no sample and
\* still returns a syntactically valid closed path string; every accuracy >= 4
\* emits at least one sample.
C7_SmallAccuracyValid ==
    ExplicitCase =>
        /\ accuracy <= 3 =>
            /\ Len(Samples(Path)) = 0
            /\ returned.type = "string"
            /\ ValidClosedPath(Path)
        /\ accuracy >= 4 => Len(Samples(Path)) >= 1

\* C8 as stated: the move point of a sampled path is the top edge midpoint
\* when clockwise and the left edge midpoint when counter-clockwise.
C8_TopOrLeftAnchor ==
    SampledCase =>
        Points(Path)[1] = (IF Args.clockwise THEN TopMid ELSE LeftMid)

\* C8: the move point of every sampled path, isotropic or anisotropic, is the
\* top edge midpoint (rotated and translated), for both windings.
C8_TopAnchor == SampledCase => Points(Path)[1] = TopMid

C8_Witness ==
    /\ SampledCase /\ ~Args.clockwise /\ Args.rotation = 1
    /\ Args.size.x # Args.size.y

\* the samples of the explicit walk in the frame the walk is made in
WalkFrame(k) ==
    Unturned(Samples(Path)[k], QuadrantRotation(Args.exponent, Args.rotation))

\* 4i for the sample x = i * step = 4i / accuracy of a walk point
XNumerator(v) == IF v.c = 0 THEN accuracy ELSE v.t[2]

\* 4, 8, ..., 4m and 4m, ..., 8, 4
Rising(m) == [k \in 1..m |-> 4 * k]

Falling(m) == [k \in 1..m |-> 4 * (m - k + 1)]

\* the walk is four runs over x = i * step: `up` samples rising on the cws side,
\* `down` falling on the cws side, then the same two on the other side
FourRuns(up, down) ==
    LET cws == IF Args.clockwise THEN 1 ELSE -1
        n == Len(Samples(Path))
    IN  /\ n = 2 * up + 2 * down
        /\ [k \in 1..n |-> XNumerator(WalkFrame(k).x)]
            = Rising(up) \o Falling(down) \o Rising(up) \o Falling(down)
        /\ \A k \in 1..n :
              SignOf(WalkFrame(k).x) = (IF k <= up + down THEN cws ELSE -cws)

\* C9 as stated: each of the four sequences has floor(accuracy/4) - 1 samples
\* x = i * step, and every one satisfies 0 < x < 1.
C9_SameCountBelowOne ==
    (ExplicitCase /\ accuracy >= 4) =>
        /\ FourRuns((accuracy \div 4) - 1, (accuracy \div 4) - 1)
        /\ \A k \in 1..Len(Samples(Path)) :
              XNumerator(WalkFrame(k).x) < accuracy

\* C9: the two ascending sequences sample x = i * step for i = 1 ..
\* ceil(accuracy/4) - 1 and the two descending ones for i = floor(accuracy/4)
\* down to 1; every sample satisfies 0 < x <= 1, and x = 1 is sampled exactly
\* when accuracy is a multiple of 4, in the descending sequences only.
C9_QuadrantSamples ==
    (ExplicitCase /\ accuracy >= 4) =>
        LET up == ((accuracy + 3) \div 4) - 1
            down == accuracy \div 4
        IN  /\ FourRuns(up, down)
            /\ \A k \in 1..Len(Samples(Path)) :
                  LET num == XNumerator(WalkFrame(k).x) IN
                  /\ 0 < num /\ num <= accuracy
                  /\ num = accuracy =>
                        /\ accuracy % 4 = 0
                        /\ (k > up /\ k <= up + down) \/ k > 2 * up + down
            /\ accuracy % 4 = 0 =>
                  \E k \in 1..Len(Samples(Path)) :
                      XNumerator(WalkFrame(k).x) = accuracy

C9_Witness ==
    /\ ExplicitCase /\ accuracy = 8 /\ ~Args.clockwise
    /\ SwapNeeded(Args.exponent) /\ Len(Samples(Path)) = 6

\* |v| <= bound for a coordinate c*t + 0 or k: decided exactly for a constant
\* and for a sample abscissa t = num/den; a helper value t lies in [0, 1]
AtMost(v, bound) ==
    IF v.c = 0 THEN Abs(v.k) <= bound
    ELSE IF v.t[1] = "x" THEN Abs(v.c) * v.t[2] <= bound * v.t[3]
    ELSE TRUE

\* C10: in the quadrant-explicit regime with exponent.x < exponent.y the
\* sampled points, seen in the shape's own (unrotated, centered) frame, reach
\* at most size.x/2 along x and size.y/2 along y.
C10_SwapKeepsBox ==
    (ExplicitCase /\ Args.exponent.x < Args.exponent.y) =>
        \A k \in 1..Len(Samples(Path)) :
            LET p == Unturned(Samples(Path)[k], Args.rotation) IN
            AtMost(p.x, HalfX) /\ AtMost(p.y, HalfY)

====
